---- MODULE Spec2Model ----
(***************************************************************************)
(* Foodprint AI: the classify -> extract -> aggregate pipeline of          *)
(* app/routes/estimate.py and the services and utilities it calls.         *)
(*                                                                         *)
(* Conventions of the model                                                *)
(*  - A Python str is a sequence of one-character strings, so that lower,  *)
(*    strip, split, isdigit, substring search and float parsing are        *)
(*    computed character by character.                                     *)
(*  - A JSON / Python value is a record [k, s, n]: k is its kind           *)
(*    ("absent" for a missing dict key, "null", "bool", "num", "str",      *)
(*    "list"), s its characters (kind "str"), n its number (kind "num",    *)
(*    and 1/0 for kind "bool").                                            *)
(*  - A float is an exact rational <<num, den>> with den > 0; carbon       *)
(*    masses are integers in units of 0.001 kg.  round(x, 3) is            *)
(*    round-half-to-even on the exact value (IEEE-754 representation       *)
(*    error is not modelled).                                              *)
(*  - The text the backend returns is abstracted by what json.loads and    *)
(*    the two bracket regexes make of it (see Text below).                 *)
(***************************************************************************)
EXTENDS Integers, Sequences, FiniteSets, TLC

VARIABLES
    entry,           \* the function called from outside
    pc,              \* position inside that call
    text,            \* dish / text_input argument (a str)
    contents,        \* uploaded image bytes
    hint,            \* hint argument of the image endpoint (a value)
    max_retries,     \* max_retries argument of extract_ingredients_from_dish
    attempt,         \* local `attempt` of the retry loop
    prompt,          \* which prompt the next extractor call sends
    classify_calls,  \* backend calls made by the classifiers
    extract_calls,   \* backend calls made by the extractors
    attempts,        \* one record per extractor backend call, in order
    parsed_any,      \* some extractor response held a non-empty JSON array
    raw,             \* what the backend answered a directly called classifier
    classification,  \* what the classifier returned
    dish_arg,        \* the dish the extractor was called with
    ingredients,     \* what the extractor returned / estimate_carbon was given
    carbon,          \* what estimate_carbon computed
    emission_key,    \* what _find_emission_key returned
    response,        \* how the call ended
    log              \* stages entered, in order

vars == <<entry, pc, text, contents, hint, max_retries, attempt, prompt,
          classify_calls, extract_calls, attempts, parsed_any, raw,
          classification, dish_arg, ingredients, carbon, emission_key, response, log>>

---------------------------------------------------------------------------
(* Bounds of the model *)

\* longest ingredient list handed directly to estimate_carbon
MaxIngredients == 2
\* longest JSON array in a backend response
MaxItems == 2
\* largest max_retries argument tried
MaxRetriesArg == 3
\* longest text handed directly to classify_text_as_food
MaxTextLen == 3
\* most words joined into a name handed directly to _find_emission_key
MaxNameWords == 2

---------------------------------------------------------------------------
(* Python str operations *)

UpperLetters == <<"A","B","C","D","E","F","G","H","I","J","K","L","M",
                  "N","O","P","Q","R","S","T","U","V","W","X","Y","Z">>
LowerLetters == <<"a","b","c","d","e","f","g","h","i","j","k","l","m",
                  "n","o","p","q","r","s","t","u","v","w","x","y","z">>
Digits == <<"0","1","2","3","4","5","6","7","8","9">>

IsSpace(c) == c \in {" ", "\t", "\n"}
IsDigit(c) == \E i \in 1..Len(Digits) : Digits[i] = c
DigitValue(c) == (CHOOSE i \in 1..Len(Digits) : Digits[i] = c) - 1

\* the lower-case letter of every upper-case letter
ToLower ==
    [c \in {UpperLetters[i] : i \in 1..Len(UpperLetters)} |->
        LowerLetters[CHOOSE i \in 1..Len(UpperLetters) : UpperLetters[i] = c]]

LowerChar(c) == IF c \in DOMAIN ToLower THEN ToLower[c] ELSE c

\* str.lower()
Lower(s) == [i \in 1..Len(s) |-> LowerChar(s[i])]

\* str.strip()
Strip(s) ==
    IF \A i \in 1..Len(s) : IsSpace(s[i]) THEN <<>>
    ELSE LET first == CHOOSE i \in 1..Len(s) :
                          ~IsSpace(s[i]) /\ \A j \in 1..(i-1) : IsSpace(s[j])
             last  == CHOOSE i \in 1..Len(s) :
                          ~IsSpace(s[i]) /\ \A j \in (i+1)..Len(s) : IsSpace(s[j])
         IN SubSeq(s, first, last)

\* len(s.split()): the number of maximal runs of non-whitespace characters
SplitCount(s) ==
    Cardinality({i \in 1..Len(s) :
                   ~IsSpace(s[i]) /\ (i = 1 \/ IsSpace(s[i-1]))})

\* `k in s` for two strs
Contains(k, s) ==
    \E i \in 0..(Len(s) - Len(k)) : SubSeq(s, i + 1, i + Len(k)) = k

RECURSIVE DigitsValue(_)
DigitsValue(s) ==
    IF s = <<>> THEN 0
    ELSE 10 * DigitsValue(SubSeq(s, 1, Len(s) - 1)) + DigitValue(s[Len(s)])

\* float(s) for a str: surrounding whitespace is dropped, one sign is allowed,
\* the rest must be decimal digits (inputs of the model hold no ".", "e",
\* "inf" or "nan"); anything else raises ValueError.
ParseFloat(s) ==
    LET t    == Strip(s)
        neg  == t # <<>> /\ t[1] = "-"
        body == IF t # <<>> /\ t[1] \in {"-", "+"} THEN Tail(t) ELSE t
    IN IF body # <<>> /\ \A i \in 1..Len(body) : IsDigit(body[i])
       THEN [ok |-> TRUE, n |-> IF neg THEN 0 - DigitsValue(body) ELSE DigitsValue(body)]
       ELSE [ok |-> FALSE, n |-> 0]

---------------------------------------------------------------------------
(* Python / JSON values *)

Absent   == [k |-> "absent", s |-> <<>>, n |-> 0]
Null     == [k |-> "null",   s |-> <<>>, n |-> 0]
Str(s)   == [k |-> "str",    s |-> s,    n |-> 0]
Num(n)   == [k |-> "num",    s |-> <<>>, n |-> n]
Bool(b)  == [k |-> "bool",   s |-> <<>>, n |-> IF b THEN 1 ELSE 0]
\* a list of strs joined with ", " is kept in s; n = 1 marks a list holding
\* an element that is not a str
List(s, bad) == [k |-> "list", s |-> s, n |-> IF bad THEN 1 ELSE 0]

\* dict.get(key) maps a missing key to None
Get(v) == IF v.k = "absent" THEN Null ELSE v

\* bool(v)
Truthy(v) ==
    CASE v.k \in {"absent", "null"} -> FALSE
      [] v.k = "bool" -> v.n = 1
      [] v.k = "num"  -> v.n # 0
      [] v.k = "str"  -> v.s # <<>>
      [] v.k = "list" -> v.s # <<>> \/ v.n = 1

\* a or b
Or(a, b) == IF Truthy(a) THEN a ELSE b

IsStr(v) == v.k = "str"

---------------------------------------------------------------------------
(* String literals of the source *)

S_accept      == <<"a","c","c","e","p","t">>
S_reject      == <<"r","e","j","e","c","t">>
S_ask_clarify == <<"a","s","k","_","c","l","a","r","i","f","y">>
S_true        == <<"t","r","u","e">>
S_unknown     == <<"u","n","k","n","o","w","n">>
S_default     == <<"d","e","f","a","u","l","t">>
S_unknown_dish  == <<"u","n","k","n","o","w","n"," ","d","i","s","h">>
S_inferred_dish == <<"i","n","f","e","r","r","e","d","-","d","i","s","h">>

---------------------------------------------------------------------------
(* app/utils/carbon.py *)

\* EMISSIONS_PER_KG in insertion (= iteration) order; factors in units of
\* 0.1 kg CO2e per kg
EMISSIONS_PER_KG == <<
    [key |-> <<"b","e","e","f">>, factor |-> 270],
    [key |-> <<"l","a","m","b">>, factor |-> 392],
    [key |-> <<"p","o","r","k">>, factor |-> 121],
    [key |-> <<"c","h","i","c","k","e","n">>, factor |-> 69],
    [key |-> <<"r","i","c","e">>, factor |-> 40],
    [key |-> <<"p","o","t","a","t","o">>, factor |-> 3],
    [key |-> <<"t","o","f","u">>, factor |-> 20],
    [key |-> <<"v","e","g","e","t","a","b","l","e">>, factor |-> 5],
    [key |-> <<"v","e","g","e","t","a","b","l","e","s">>, factor |-> 5],
    [key |-> <<"o","i","l">>, factor |-> 60],
    [key |-> <<"s","p","i","c","e","s">>, factor |-> 15],
    [key |-> <<"c","h","e","e","s","e">>, factor |-> 135],
    [key |-> <<"m","i","l","k">>, factor |-> 32],
    [key |-> <<"d","e","f","a","u","l","t">>, factor |-> 25] >>

\* DEFAULT_DISH_WEIGHT_KG (default 0.6) in units of 0.1 kg
DEFAULT_DISH_WEIGHT_KG == 6

HasKey(key) == \E i \in 1..Len(EMISSIONS_PER_KG) : EMISSIONS_PER_KG[i].key = key
FactorOf(key) ==
    EMISSIONS_PER_KG[CHOOSE i \in 1..Len(EMISSIONS_PER_KG) :
                         EMISSIONS_PER_KG[i].key = key].factor

\* the loop of lines 29-31 keeping the last key that matches, not the first
_find_emission_key_last_hit(name) ==
    LET key == Lower(name)
        hits == {i \in 1..Len(EMISSIONS_PER_KG) : Contains(EMISSIONS_PER_KG[i].key, key)}
    IN IF HasKey(key) THEN key
       ELSE IF hits # {}
            THEN EMISSIONS_PER_KG[CHOOSE i \in hits : \A j \in hits : i >= j].key
            ELSE S_default
\* _find_emission_key(name) for a str name
_find_emission_key(name) ==
    LET key == Lower(name)
        hits == {i \in 1..Len(EMISSIONS_PER_KG) : Contains(EMISSIONS_PER_KG[i].key, key)}
    IN IF HasKey(key) THEN key
       ELSE IF hits # {}
            THEN EMISSIONS_PER_KG[CHOOSE i \in hits : \A j \in hits : i <= j].key
            ELSE S_default

\* float(p) if p is not None else None, with every exception mapped to None
ToFloat(p) ==
    CASE p.k \in {"absent", "null"} -> [ok |-> FALSE, n |-> 0]
      [] p.k \in {"num", "bool"}    -> [ok |-> TRUE, n |-> p.n]
      [] p.k = "str"                -> ParseFloat(p.s)
      [] p.k = "list"               -> [ok |-> FALSE, n |-> 0]

RECURSIVE SumSeq(_)
SumSeq(s) == IF s = <<>> THEN 0 ELSE s[1] + SumSeq(Tail(s))

\* round-half-to-even of num/den (den > 0) to an integer
RoundHalfEven(num, den) ==
    LET q == num \div den
        r == num % den
    IN IF 2 * r < den THEN q
       ELSE IF 2 * r > den THEN q + 1
       ELSE IF q % 2 = 0 THEN q ELSE q + 1

\* a rational with a positive denominator
Rat(num, den) == IF den < 0 THEN <<0 - num, 0 - den>> ELSE <<num, den>>

\* line 55 giving a fraction of 1 instead of a share of 100
EqualShare_fraction(n) == <<1, n>>
\* the share every entry gets when total_pct == 0 (line 55)
EqualShare(n) == <<100, n>>

\* the rescaled percentage (p or 0) * (100.0 / total_pct) (lines 58-59)
Rescaled(p, total_pct) ==
    Rat((IF p.ok THEN p.n ELSE 0) * 100, total_pct)

\* round(emission_per_kg * weight_kg, 3) in units of 0.001 kg (lines 66-68):
\* factor/10 * (pct/100) * weight/10 kg = factor * pct * weight / 10 g
ItemCarbon(key, pct) ==
    RoundHalfEven(FactorOf(key) * pct[1] * DEFAULT_DISH_WEIGHT_KG, pct[2] * 10)

\* total_carbon after the loop and the final round (lines 62, 69, 71)
TotalCarbon_unrounded_items(names, normalized) ==
    LET exact(i) == FactorOf(_find_emission_key(names[i])) * normalized[i][1]
                        * DEFAULT_DISH_WEIGHT_KG
        \* all normalized values share one denominator
        den == IF normalized = <<>> THEN 1 ELSE normalized[1][2] * 10
    IN RoundHalfEven(SumSeq([i \in 1..Len(names) |-> exact(i)]), den)
TotalCarbon(names, normalized) ==
    RoundHalfEven(
        SumSeq([i \in 1..Len(names) |->
                   ItemCarbon(_find_emission_key(names[i]), normalized[i])]), 1)

NoCarbon == [done |-> FALSE, raised |-> FALSE, exc |-> "",
             normalized |-> <<>>, result |-> <<>>, total |-> 0]

\* estimate_carbon(ingredients): each ingredient is [name, percentage]
estimate_carbon(ings) ==
    LET n       == Len(ings)
        floats  == [i \in 1..n |-> ToFloat(Get(ings[i].percentage))]
        total_pct == SumSeq([i \in 1..n |->
                        IF floats[i].ok /\ floats[i].n # 0 THEN floats[i].n ELSE 0])
        names   == [i \in 1..n |->
                        IF ings[i].name.k = "absent" THEN Str(S_unknown) ELSE ings[i].name]
    IN IF total_pct = 0 /\ n = 0
       THEN [NoCarbon EXCEPT !.done = TRUE, !.raised = TRUE,
                             !.exc = "ZeroDivisionError"]
       ELSE LET normalized == IF total_pct = 0
                              THEN [i \in 1..n |-> EqualShare(n)]
                              ELSE [i \in 1..n |-> Rescaled(floats[i], total_pct)]
            IN IF \E i \in 1..n : ~IsStr(names[i])
               THEN [NoCarbon EXCEPT !.done = TRUE, !.raised = TRUE,
                                     !.exc = "AttributeError",
                                     !.normalized = normalized]
               ELSE LET strs == [i \in 1..n |-> names[i].s]
                    IN [done |-> TRUE, raised |-> FALSE, exc |-> "",
                        normalized |-> normalized,
                        result |-> [i \in 1..n |->
                            [name |-> strs[i],
                             carbon_kg |-> ItemCarbon(_find_emission_key(strs[i]),
                                                      normalized[i])]],
                        total |-> TotalCarbon(strs, normalized)]

---------------------------------------------------------------------------
(* What the backend returns *)

\* An element of a JSON array: a dict with the keys the cleaners read, or
\* something that is not a dict
Item(name, ingredient, percentage, pct) ==
    [isdict |-> TRUE, name |-> name, ingredient |-> ingredient,
     percentage |-> percentage, pct |-> pct]
NotADict == [isdict |-> FALSE, name |-> Absent, ingredient |-> Absent,
             percentage |-> Absent, pct |-> Absent]

\* The value of an "ingredients" key
NoIngredients    == [k |-> "absent", items |-> <<>>]
Ingredients(its) == [k |-> "list", items |-> its]
IngredientsNum   == [k |-> "num", items |-> <<>>]
IngredientsStr   == [k |-> "str", items |-> <<>>]
IngTruthy(v)     == v.k \in {"num", "str"} \/ (v.k = "list" /\ v.items # <<>>)

\* A JSON object, by the keys the classifiers and the image extractor read;
\* other_keys says whether it holds any other key
EmptyObj == [action |-> Absent, is_food |-> Absent, dish |-> Absent,
             confidence |-> Absent, message |-> Absent,
             contains_human |-> Absent, contains_objects |-> Absent,
             title |-> Absent, name |-> Absent,
             ingredients |-> NoIngredients, ingredient_list |-> NoIngredients,
             other_keys |-> FALSE]

\* `not parsed` for a dict: it has no key at all
IsEmptyObj(o) ==
    /\ \A v \in {o.action, o.is_food, o.dish, o.confidence, o.message,
                 o.contains_human, o.contains_objects, o.title, o.name} :
           v.k = "absent"
    /\ o.ingredients.k = "absent" /\ o.ingredient_list.k = "absent"
    /\ ~o.other_keys

\* What a parse step yields: "nomatch" (the regex found nothing), "bad"
\* (json.loads raised), "dict", "list", or "other" (a JSON scalar)
NoMatch    == [k |-> "nomatch", obj |-> EmptyObj, items |-> <<>>]
BadJson    == [k |-> "bad",     obj |-> EmptyObj, items |-> <<>>]
Scalar     == [k |-> "other",   obj |-> EmptyObj, items |-> <<>>]
AsDict(o)  == [k |-> "dict",    obj |-> o,        items |-> <<>>]
AsList(is) == [k |-> "list",    obj |-> EmptyObj, items |-> is]

\* An array element read as a JSON object
ItemAsObj(it) ==
    [EmptyObj EXCEPT !.name = it.name,
                     !.other_keys = \E v \in {it.ingredient, it.percentage, it.pct} :
                                        v.k # "absent"]

\* r"(\{.*\})" with re.S on the text of a JSON array: the greedy match runs
\* from the first "{" to the last "}", so it is one object exactly when the
\* array holds one dict
ObjBlockOfItems(its) ==
    LET dicts == {i \in 1..Len(its) : its[i].isdict}
    IN IF dicts = {} THEN NoMatch
       ELSE IF Cardinality(dicts) = 1
            THEN AsDict(ItemAsObj(its[CHOOSE i \in dicts : TRUE]))
            ELSE BadJson

\* r"(\[.*\])" with re.S on the text of a JSON object
ArrBlockOfObj(o) ==
    IF o.ingredients.k = "list" /\ o.ingredient_list.k # "list"
    THEN AsList(o.ingredients.items)
    ELSE IF o.ingredient_list.k = "list" /\ o.ingredients.k # "list"
    THEN AsList(o.ingredient_list.items)
    ELSE IF o.ingredients.k = "list" THEN BadJson
    ELSE IF o.contains_objects.k = "list"
    THEN (IF Truthy(o.contains_objects) THEN AsList(<<NotADict>>) ELSE AsList(<<>>))
    ELSE NoMatch

\* A returned text: whether it is a str, what json.loads(text) gives, and
\* what json.loads gives on the match of each bracket regex
Text(isstr, whole, objBlock, arrBlock) ==
    [isstr |-> isstr, whole |-> whole, objBlock |-> objBlock, arrBlock |-> arrBlock]

\* the text is exactly a JSON array / a JSON object
WholeList(its) == Text(TRUE, AsList(its), ObjBlockOfItems(its), AsList(its))
WholeDict(o)   == Text(TRUE, AsDict(o), AsDict(o), ArrBlockOfObj(o))
\* prose around one JSON array / one JSON object
ProseWithList(its) == Text(TRUE, BadJson, ObjBlockOfItems(its), AsList(its))
ProseWithDict(o)   == Text(TRUE, BadJson, AsDict(o), ArrBlockOfObj(o))
\* prose with no bracket at all; brackets around something that is not JSON;
\* a bare JSON number; a content that is not a str
Prose        == Text(TRUE, BadJson, NoMatch, NoMatch)
BrokenJson   == Text(TRUE, BadJson, BadJson, BadJson)
ScalarJson   == Text(TRUE, Scalar, NoMatch, NoMatch)
NotAString   == Text(FALSE, BadJson, NoMatch, NoMatch)

\* A backend call either raises or returns a text
Raises      == [raises |-> TRUE, text |-> Prose]
Returns(t)  == [raises |-> FALSE, text |-> t]

---------------------------------------------------------------------------
(* The lenient parsers *)

\* _extract_json_array(text): the regex is tried only when json.loads raised
_extract_json_array(t) ==
    IF ~t.isstr THEN <<>>
    ELSE IF t.whole.k # "bad"
         THEN (IF t.whole.k = "list" THEN t.whole.items ELSE <<>>)
         ELSE IF t.arrBlock.k = "list" THEN t.arrBlock.items ELSE <<>>

\* _extract_json_object(text) and _extract_json_object_loose(text): the regex
\* is tried whenever the direct parse gave no dict
_extract_json_object(t) ==
    IF ~t.isstr THEN EmptyObj
    ELSE IF t.whole.k = "dict" THEN t.whole.obj
    ELSE IF t.objBlock.k = "dict" THEN t.objBlock.obj
    ELSE EmptyObj

---------------------------------------------------------------------------
(* app/services/content_classifier.py *)

_NON_FOOD_KEYWORDS == {
    <<"b","u","s">>, <<"c","a","r">>, <<"p","h","o","n","e">>,
    <<"m","a","n">>, <<"w","o","m","a","n">>, <<"p","e","r","s","o","n">>,
    <<"p","e","o","p","l","e">>, <<"d","o","g">>, <<"c","a","t">>,
    <<"a","n","i","m","a","l">>, <<"t","r","e","e">>, <<"m","o","u","n","t","a","i","n">>,
    <<"r","i","v","e","r">>, <<"b","u","i","l","d","i","n","g">>, <<"h","o","u","s","e">>,
    <<"l","a","p","t","o","p">>, <<"k","e","y","b","o","a","r","d">>, <<"m","o","n","i","t","o","r">>,
    <<"s","h","o","e">>, <<"s","h","o","e","s">>, <<"c","u","p","b","o","a","r","d">>,
    <<"b","o","t","t","l","e">>, <<"b","i","c","y","c","l","e">>, <<"t","r","a","i","n">>,
    <<"p","l","a","n","e">>, <<"c","h","a","i","r">>, <<"t","a","b","l","e">>,
    <<"l","a","m","p">>, <<"c","a","m","e","r","a">>, <<"w","a","t","c","h">>,
    <<"c","l","o","c","k">>, <<"p","h","o","n","e">>, <<"t","r","u","c","k">>,
    <<"t","r","u","c","k">>, <<"f","i","s","h">>, <<"b","i","r","d">>,
    <<"h","o","r","s","e">>, <<"c","o","w">>, <<"s","h","e","e","p">>,
    <<"g","o","a","t">>, <<"b","a","c","k","p","a","c","k">>, <<"w","a","l","l","e","t">>,
    <<"b","a","g">>, <<"p","u","r","s","e">> }

\* _quick_text_heuristic_is_nonfood(text) without the lower-casing of line 25
Heuristic_case_sensitive(txt) ==
    IF txt = <<>> THEN TRUE
    ELSE LET t == Strip(txt)
         IN \/ SplitCount(t) = 1 /\ t \in _NON_FOOD_KEYWORDS
            \/ Len(t) < 3 /\ ~\E i \in 1..Len(t) : IsDigit(t[i])

\* _quick_text_heuristic_is_nonfood(text)
_quick_text_heuristic_is_nonfood(txt) ==
    IF txt = <<>> THEN TRUE
    ELSE LET t == Lower(Strip(txt))
         IN \/ SplitCount(t) = 1 /\ t \in _NON_FOOD_KEYWORDS
            \/ Len(t) < 3 /\ ~\E i \in 1..Len(t) : IsDigit(t[i])

\* the user-facing sentences, each kept as a one-element str
MSG_HEURISTIC == Str(<<"Please enter a dish name (e.g. 'Chicken Biryani') - not a person, object, or place.">>)
MSG_TEXT_UNPARSED == Str(<<"Input not recognized as a food dish. Please enter a dish name or upload a photo of a dish.">>)
MSG_TEXT_DEFAULT == Str(<<"Please upload or enter a dish name.">>)
MSG_IMAGE_UNPARSED == Str(<<"Image could not be classified as a dish. Please upload a clear photo of a dish.">>)
MSG_IMAGE_DEFAULT == Str(<<"Please upload a photo of a dish.">>)

\* The dict a classifier returns (confidence in units of 0.01)
Classification(action, is_food, dish, confidence, message, human, objects) ==
    [action |-> action, is_food |-> is_food, dish |-> dish,
     confidence |-> confidence, message |-> message,
     contains_human |-> human, contains_objects |-> objects]
NoClassification ==
    Classification(<<>>, FALSE, Absent, Absent, Absent, Absent, Absent)

\* How a call ends: it returns `result` or raises `exc`; calls = backend
\* calls it made
Returned(result, calls) == [raised |-> FALSE, exc |-> "", result |-> result, calls |-> calls]
Raised(exc, calls) == [raised |-> TRUE, exc |-> exc, result |-> NoClassification, calls |-> calls]

ValidActions == {S_accept, S_reject, S_ask_clarify}

\* bool(v is True or str(v).lower() == "true") for v = parsed.get(key)
IsTrue(v) ==
    \/ v.k = "bool" /\ v.n = 1
    \/ v.k = "str" /\ Lower(v.s) = S_true

\* float(v or 0.0): the value, or the exception it raises
FloatOrZero(v) ==
    IF ~Truthy(v) THEN [exc |-> "", value |-> Num(0)]
    ELSE CASE v.k \in {"num", "bool"} -> [exc |-> "", value |-> Num(v.n)]
           [] v.k = "str" ->
                IF ParseFloat(v.s).ok
                THEN [exc |-> "", value |-> Num(ParseFloat(v.s).n)]
                ELSE [exc |-> "ValueError", value |-> Num(0)]
           [] v.k = "list" -> [exc |-> "TypeError", value |-> Num(0)]

\* lines 127-129: the action of the text classifier, for a str or missing
\* "action"
TextAction(parsed) ==
    LET action == IF parsed.action.k = "absent" THEN <<>> ELSE Lower(parsed.action.s)
    IN IF action \in ValidActions THEN action
       ELSE IF ~Truthy(Get(parsed.is_food)) THEN S_reject ELSE S_accept

\* lines 172-174: the action of the image classifier
ImageAction(parsed) ==
    LET action == IF parsed.action.k = "absent" THEN S_reject ELSE Lower(parsed.action.s)
    IN IF action \in ValidActions THEN action ELSE S_reject

\* classify_text_as_food(text_input) when the backend answers resp
classify_text_as_food(text_input, resp) ==
    IF _quick_text_heuristic_is_nonfood(text_input)
    THEN Returned(Classification(S_reject, FALSE, Null, Num(95), MSG_HEURISTIC,
                                 Absent, Absent), 0)
    ELSE IF resp.raises THEN Raised("BackendError", 1)
    ELSE LET parsed == _extract_json_object(resp.text)
         IN IF IsEmptyObj(parsed)
            THEN Returned(Classification(S_reject, FALSE, Null, Num(0),
                                         MSG_TEXT_UNPARSED, Absent, Absent), 1)
            ELSE IF parsed.action.k \notin {"absent", "str"}
            THEN Raised("AttributeError", 1)
            ELSE IF FloatOrZero(Get(parsed.confidence)).exc # ""
            THEN Raised(FloatOrZero(Get(parsed.confidence)).exc, 1)
            ELSE Returned(Classification(
                              TextAction(parsed),
                              IsTrue(Get(parsed.is_food)),
                              Get(parsed.dish),
                              FloatOrZero(Get(parsed.confidence)).value,
                              Or(Get(parsed.message), MSG_TEXT_DEFAULT),
                              Absent, Absent), 1)

\* classify_image_as_food(image_bytes, hint) when the backend answers resp
classify_image_as_food(resp) ==
    IF resp.raises THEN Raised("BackendError", 1)
    ELSE LET parsed == _extract_json_object(resp.text)
         IN IF IsEmptyObj(parsed)
            THEN Returned(Classification(S_reject, FALSE, Null, Num(0),
                                         MSG_IMAGE_UNPARSED, Bool(FALSE),
                                         List(<<>>, FALSE)), 1)
            ELSE IF parsed.action.k \notin {"absent", "str"}
            THEN Raised("AttributeError", 1)
            ELSE IF FloatOrZero(Get(parsed.confidence)).exc # ""
            THEN Raised(FloatOrZero(Get(parsed.confidence)).exc, 1)
            ELSE Returned(Classification(
                              ImageAction(parsed),
                              IsTrue(Get(parsed.is_food)),
                              Get(parsed.dish),
                              FloatOrZero(Get(parsed.confidence)).value,
                              Or(Get(parsed.message), MSG_IMAGE_DEFAULT),
                              Bool(IsTrue(Get(parsed.contains_human))),
                              Or(Get(parsed.contains_objects), List(<<>>, FALSE))), 1)

---------------------------------------------------------------------------
(* app/services/ingredient_extractor.py *)

\* An entry of the list an extractor returns
Ingredient(name, percentage) == [name |-> name, percentage |-> percentage]

\* name = (item.get("name") or item.get("ingredient") or "") before .strip()
ItemName(it) == Or(Or(Get(it.name), Get(it.ingredient)), Str(<<>>))
\* pct = item.get("percentage") or item.get("pct") or None
ItemPct(it) == Or(Or(Get(it.percentage), Get(it.pct)), Null)

\* .strip() raises AttributeError on a name that is not a str
CleanRaises(arr) ==
    \E i \in 1..Len(arr) : arr[i].isdict /\ ~IsStr(ItemName(arr[i]))

\* the cleaning loop (lines 88-95, 197-205, 220-227): dicts with a non-empty
\* stripped name, in order
RECURSIVE Clean(_)
Clean(arr) ==
    IF arr = <<>> THEN <<>>
    ELSE LET it == arr[1]
         IN IF it.isdict /\ Strip(ItemName(it).s) # <<>>
            THEN <<Ingredient(Str(Strip(ItemName(it).s)), ItemPct(it))>> \o Clean(Tail(arr))
            ELSE Clean(Tail(arr))

\* the validity test of line 96 accepting a single-entry list
IsValid_one_entry(cleaned, dish) ==
    /\ Len(cleaned) > 0
    /\ ~\A i \in 1..Len(cleaned) :
           Strip(Lower(cleaned[i].name.s)) = Strip(Lower(dish.s))

\* the validity test of line 96, for a str dish
IsValid(cleaned, dish) ==
    /\ Len(cleaned) > 1
    /\ ~\A i \in 1..Len(cleaned) :
           Strip(Lower(cleaned[i].name.s)) = Strip(Lower(dish.s))

\* p or 0 can be summed: it is a number
Summable(p) == ~Truthy(p) \/ p.k \in {"num", "bool"}
PctOrZero(p) == IF Truthy(p) THEN p.n ELSE 0

\* sum([p or 0 ...]) raises TypeError on a str or list percentage
SumRaises(cleaned) == \E i \in 1..Len(cleaned) : ~Summable(cleaned[i].percentage)
SumPct(cleaned) == SumSeq([i \in 1..Len(cleaned) |-> PctOrZero(cleaned[i].percentage)])

\* lines 97-101: percentages that sum to 0 are replaced by int(100 / len)
FillEvenly(cleaned) ==
    IF SumPct(cleaned) = 0
    THEN [i \in 1..Len(cleaned) |->
             Ingredient(cleaned[i].name, Num(100 \div Len(cleaned)))]
    ELSE cleaned

\* line 116 with the placeholder name of the image path
Fallback_unknown(dish) == <<Ingredient(Str(S_unknown), Num(100))>>
\* line 116
Fallback(dish) == <<Ingredient(dish, Num(100))>>

\* How one pass of the retry loop ends: kind is "raise", "return" (value is
\* the returned list) or "retry"; valid says whether line 96 accepted the
\* cleaned list, parsed whether _extract_json_array gave a non-empty list
Pass(kind, exc, value, valid, parsed) ==
    [kind |-> kind, exc |-> exc, value |-> value, valid |-> valid, parsed |-> parsed]

\* the retry test of line 105 off by one
MayRetry_one_more(att, retries) == att <= retries + 1
\* line 105, with att the incremented attempt
MayRetry(att, retries) == att <= retries

\* One pass of the loop body of extract_ingredients_from_dish (lines 84-116)
\* with `attempt` = att, when the backend answers resp
ExtractPass(dish, att, retries, resp) ==
    IF resp.raises THEN Pass("raise", "BackendError", <<>>, FALSE, FALSE)
    ELSE LET arr == _extract_json_array(resp.text)
             cleaned == Clean(arr)
             tail == IF MayRetry(att + 1, retries)
                     THEN Pass("retry", "", <<>>, FALSE, arr # <<>>)
                     ELSE Pass("return", "", Fallback(dish), FALSE, arr # <<>>)
         IN IF arr = <<>> THEN tail
            ELSE IF CleanRaises(arr)
            THEN Pass("raise", "AttributeError", <<>>, FALSE, TRUE)
            ELSE IF Len(cleaned) > 1 /\ ~IsStr(dish)
            THEN Pass("raise", "AttributeError", <<>>, FALSE, TRUE)
            ELSE IF IsValid(cleaned, dish)
            THEN (IF SumRaises(cleaned)
                  THEN Pass("raise", "TypeError", <<>>, TRUE, TRUE)
                  ELSE Pass("return", "", FillEvenly(cleaned), TRUE, TRUE))
            ELSE tail

\* The exception the loop of lines 199-206 raises, if any: .strip() on a name
\* that is not a str, or total_pct += pct on a named item whose percentage
\* is a str or a list, whichever item comes first
ImageLoopExc(arr) ==
    LET nameBad(i) == arr[i].isdict /\ ~IsStr(ItemName(arr[i]))
        pctBad(i)  == /\ arr[i].isdict /\ IsStr(ItemName(arr[i]))
                      /\ Strip(ItemName(arr[i]).s) # <<>>
                      /\ ~Summable(ItemPct(arr[i]))
        bad == {i \in 1..Len(arr) : nameBad(i) \/ pctBad(i)}
    IN IF bad = {} THEN ""
       ELSE IF nameBad(CHOOSE i \in bad : \A j \in bad : i <= j)
            THEN "AttributeError" ELSE "TypeError"

\* How extract_ingredients_from_image ends
ImageResult(kind, exc, value, dish_name) ==
    [kind |-> kind, exc |-> exc, value |-> value, dish_name |-> dish_name]

\* extract_ingredients_from_image(image_bytes, hint) when the backend answers
\* resp
extract_ingredients_from_image(hnt, resp) ==
    IF resp.raises THEN ImageResult("raise", "BackendError", <<>>, Null)
    ELSE LET parsed == _extract_json_object(resp.text)
         IN IF IsEmptyObj(parsed)
            THEN LET arr == _extract_json_array(resp.text)
                     cleaned == Clean(arr)
                 IN IF arr # <<>>
                    THEN (IF ImageLoopExc(arr) # ""
                          THEN ImageResult("raise", ImageLoopExc(arr), <<>>, Null)
                          ELSE ImageResult("return", "",
                                   IF Len(cleaned) > 0 THEN FillEvenly(cleaned) ELSE cleaned,
                                   Or(hnt, Str(S_unknown_dish))))
                    ELSE ImageResult("return", "",
                             Fallback(Or(hnt, Str(S_unknown))), Or(hnt, Str(S_unknown)))
            ELSE LET dish_name == Or(Or(Or(Get(parsed.dish), Get(parsed.title)),
                                        Get(parsed.name)), Str(<<>>))
                     ings == IF IngTruthy(parsed.ingredients) THEN parsed.ingredients
                             ELSE IF IngTruthy(parsed.ingredient_list)
                                  THEN parsed.ingredient_list
                                  ELSE Ingredients(<<>>)
                     cleaned == Clean(ings.items)
                 IN IF ings.k = "num"
                    THEN ImageResult("raise", "TypeError", <<>>, Null)
                    ELSE IF CleanRaises(ings.items)
                    THEN ImageResult("raise", "AttributeError", <<>>, Null)
                    ELSE IF SumRaises(cleaned)
                    THEN ImageResult("raise", "TypeError", <<>>, Null)
                    ELSE ImageResult("return", "",
                             IF Len(cleaned) > 0 THEN FillEvenly(cleaned) ELSE cleaned,
                             IF ~Truthy(dish_name) \/ ~IsStr(dish_name)
                                \/ Strip(dish_name.s) = <<>>
                             THEN Or(hnt, Str(S_inferred_dish))
                             ELSE dish_name)

---------------------------------------------------------------------------
(* Inputs *)

S_Rice    == <<"R","i","c","e">>
S_Chicken == <<"C","h","i","c","k","e","n">>
S_Oil     == <<"O","i","l">>
S_Beef    == <<"B","e","e","f">>
S_Water   == <<"W","a","t","e","r">>
S_Pasta   == <<"P","a","s","t","a">>
S_pasta_padded == <<" ","p","a","s","t","a"," ">>
S_Grilled_Chicken_Breast ==
    <<"G","r","i","l","l","e","d"," ","C","h","i","c","k","e","n"," ",
      "B","r","e","a","s","t">>
S_Vegetables == <<"V","e","g","e","t","a","b","l","e","s">>
S_ACCEPT  == <<"A","C","C","E","P","T">>
S_maybe   == <<"m","a","y","b","e">>
S_false   == <<"f","a","l","s","e">>
S_high    == <<"h","i","g","h">>
S_60      == <<"6","0">>

RECURSIVE SeqsUpTo(_, _)
\* all sequences over S of length at most n
SeqsUpTo(S, n) ==
    IF n = 0 THEN {<<>>}
    ELSE LET shorter == SeqsUpTo(S, n - 1)
         IN shorter \cup {Append(q, x) : q \in {r \in shorter : Len(r) = n - 1}, x \in S}

\* elements of the arrays the backend returns
Items == {
    Item(Str(S_Rice), Absent, Num(60), Absent),
    Item(Absent, Str(S_Chicken), Absent, Num(40)),
    Item(Str(S_Oil), Absent, Absent, Absent),
    Item(Str(S_pasta_padded), Absent, Absent, Absent),
    Item(Str(<<" ">>), Absent, Num(10), Absent),
    Item(Num(5), Absent, Num(10), Absent),
    Item(Str(S_Beef), Absent, Str(S_60), Absent),
    NotADict }

Arrays == SeqsUpTo(Items, MaxItems)

\* the objects a classifier prompt may be answered with
ClassifierObj(action, is_food, dish, confidence, message, objects) ==
    [EmptyObj EXCEPT !.action = action, !.is_food = is_food, !.dish = dish,
                     !.confidence = confidence, !.message = message,
                     !.contains_objects = objects]

MSG_BACKEND == Str(<<"Not a dish.">>)

ClassifierObjs ==
    {ClassifierObj(a, f, Str(S_Pasta), Num(90), m, Absent) :
        a \in {Absent, Null, Str(S_accept), Str(S_reject), Str(S_ask_clarify),
               Str(S_ACCEPT), Str(S_maybe)},
        f \in {Absent, Bool(TRUE), Bool(FALSE), Str(S_true), Str(S_false)},
        m \in {Absent, Str(<<>>), MSG_BACKEND, Num(7)}}
    \cup
    {ClassifierObj(Str(a), Bool(TRUE), d, c, MSG_BACKEND, o) :
        a \in {S_accept, S_reject},
        d \in {Null, Num(5)},
        c \in {Absent, Str(S_high)},
        o \in {Absent, List(<<"bus, car">>, FALSE), List(<<>>, TRUE), Num(3)}}

\* a typical answer to an extraction prompt
TypicalArray == <<Item(Str(S_Rice), Absent, Num(60), Absent),
                  Item(Absent, Str(S_Chicken), Absent, Num(40))>>

\* objects with an "ingredients" array
IngredientObjs ==
    {[EmptyObj EXCEPT !.ingredients = Ingredients(a)] : a \in Arrays}

\* objects that differ in their other keys
OtherObjs ==
    {[EmptyObj EXCEPT !.dish = d, !.ingredients = Ingredients(TypicalArray)] :
        d \in {Str(S_Pasta), Str(<<" ">>), Num(5)}}
    \cup
    {[EmptyObj EXCEPT !.title = Str(S_Pasta),
                      !.ingredient_list = Ingredients(TypicalArray)],
     [EmptyObj EXCEPT !.name = Str(S_Pasta)],
     [EmptyObj EXCEPT !.ingredients = IngredientsNum],
     [EmptyObj EXCEPT !.ingredients = IngredientsStr],
     [EmptyObj EXCEPT !.other_keys = TRUE],
     EmptyObj}

\* the objects an image-extraction prompt may be answered with
ExtractorObjs == IngredientObjs \cup OtherObjs

PlainTexts == {Prose, BrokenJson, ScalarJson, NotAString}

\* a few objects covering the kinds of answer to a classifier prompt
FewClassifierObjs ==
    {ClassifierObj(Str(S_accept), Bool(TRUE), Str(S_Pasta), Num(90), MSG_BACKEND, Absent),
     ClassifierObj(Str(S_reject), Bool(FALSE), Null, Num(90), MSG_BACKEND, Absent),
     ClassifierObj(Str(S_ask_clarify), Bool(FALSE), Null, Num(50), Absent, Absent),
     ClassifierObj(Str(S_maybe), Str(S_false), Null, Absent, Absent, Absent),
     ClassifierObj(Str(S_maybe), Bool(TRUE), Str(S_Pasta), Num(90), Absent, Absent),
     ClassifierObj(Str(S_maybe), Bool(FALSE), Null, Num(90), MSG_BACKEND, Absent),
     ClassifierObj(Absent, Bool(TRUE), Str(S_Pasta), Num(90), Absent, Absent),
     ClassifierObj(Null, Bool(TRUE), Str(S_Pasta), Num(90), Absent, Absent),
     ClassifierObj(Str(S_accept), Bool(TRUE), Str(S_Pasta), Str(S_high), Absent, Absent)}

ClassifierTexts ==
    {WholeDict(o) : o \in ClassifierObjs} \cup {ProseWithDict(o) : o \in FewClassifierObjs}
FewClassifierTexts ==
    {WholeDict(o) : o \in FewClassifierObjs} \cup {ProseWithDict(o) : o \in FewClassifierObjs}
ArrayTexts ==
    {WholeList(a) : a \in Arrays} \cup {ProseWithList(a) : a \in Arrays}
ObjectTexts ==
    {WholeDict(o) : o \in ExtractorObjs} \cup {ProseWithDict(o) : o \in OtherObjs}

\* What a backend call may do: raise, or return a text.  Each call site is
\* answered with every plain text, every text of the shape its prompt asks
\* for, and some texts of the other shapes.
ClassifierResponses ==
    {Raises} \cup {Returns(t) : t \in PlainTexts \cup ClassifierTexts
                       \cup {WholeList(<<Item(Str(S_Rice), Absent, Num(60), Absent)>>),
                             WholeDict(EmptyObj)}}
FewClassifierResponses ==
    {Raises} \cup {Returns(t) : t \in PlainTexts \cup FewClassifierTexts}
DishResponses ==
    {Raises} \cup {Returns(t) : t \in PlainTexts \cup ArrayTexts
                       \cup {WholeDict(o) : o \in OtherObjs}
                       \cup {ProseWithDict(o) : o \in OtherObjs}}
ImageResponses ==
    {Raises} \cup {Returns(t) : t \in PlainTexts \cup ArrayTexts \cup ObjectTexts}

\* payload.dish of POST /estimate/
DishTexts == {<<>>, <<" ">>, S_pasta_padded, <<" ","c","a","t">>}
\* the uploaded bytes and the hint of POST /estimate/image
ImageContents == {<<>>, <<255, 216>>}
Hints == {Null, Str(S_Pasta)}
\* dish arguments of a direct call of extract_ingredients_from_dish
DishArgs == {S_Pasta, S_pasta_padded, S_Rice}
\* characters of the texts handed directly to classify_text_as_food
TextAlphabet == {"c", "a", "t", "C", " ", "1"}

\* percentages and names of the lists handed directly to estimate_carbon;
\* with these values no exact product lies halfway between two multiples
\* of 0.001, where the float's representation error would decide round()
PctInputs == {Absent, Null, Num(0), Num(3), Num(6), Num(0 - 50), Num(150),
              Str(S_60), Str(S_high)}
NameInputs == {Str(S_Rice), Str(S_Grilled_Chicken_Breast), Absent}
IngredientInputs == {Ingredient(n, q) : n \in NameInputs, q \in PctInputs}

\* names handed directly to _find_emission_key: up to MaxNameWords of these
\* words written one after the other
NameWords == {S_Rice, S_Beef, S_Oil, S_Vegetables, S_Water, S_Pasta,
              S_Grilled_Chicken_Breast, <<" ">>}
RECURSIVE Join(_)
Join(words) == IF words = <<>> THEN <<>> ELSE words[1] \o Join(Tail(words))
EmissionNames == {Join(w) : w \in SeqsUpTo(NameWords, MaxNameWords)}

---------------------------------------------------------------------------
(* app/routes/estimate.py *)

\* max_retries: int = 2 in the signature of extract_ingredients_from_dish
DefaultMaxRetries == 2

\* How a call ends
NoResponse == [kind |-> "none", status |-> 0, detail |-> Absent, detected |-> Absent]
\* raise HTTPException(status_code, detail)
HTTPException(status, detail) ==
    [kind |-> "http", status |-> status, detail |-> detail, detected |-> Absent]
\* an exception leaves the handler (or the function called directly)
Uncaught(exc) ==
    [kind |-> "uncaught", status |-> 0, detail |-> Str(<<exc>>), detected |-> Absent]
\* return JSONResponse({...})
JSONResponse == [kind |-> "ok", status |-> 200, detail |-> Absent, detected |-> Absent]
\* a function called directly returns
Return == [kind |-> "return", status |-> 0, detail |-> Absent, detected |-> Absent]

MSG_DISH_REQUIRED == Str(<<"dish is required">>)
MSG_DISH_CLARIFY == Str(<<"Please provide a clear dish name (e.g., 'Chicken Biryani').">>)
MSG_EMPTY_IMAGE == Str(<<"empty image upload">>)
MSG_IMAGE_CLARIFY == Str(<<"Image unclear - please upload a clear photo of the dish or include the dish name as a hint.">>)

\* an attempt of the retry loop, as the history keeps it
AttemptRecord(p) == [kind |-> p.kind, valid |-> p.valid]

\* lines 23-27 and 52-62: what the handler does with the classifier's action
Gate(action) ==
    IF action = S_reject THEN "reject"
    ELSE IF action = S_ask_clarify THEN "ask_clarify" ELSE "accept"

\* ', '.join(objs) raises TypeError unless objs is a str or a list of strs
JoinRaises(objs) == objs.k \in {"num", "bool"} \/ (objs.k = "list" /\ objs.n = 1)

\* the try block of both handlers after the extractor returned `value`
\* (lines 33-38, 67-72): aggregate and answer
Aggregate(value) ==
    LET c == estimate_carbon(value)
    IN /\ ingredients' = value
       /\ carbon' = c
       /\ log' = log \o <<"extract_returned", "aggregate">>
       /\ response' = IF c.raised THEN HTTPException(500, Str(<<c.exc>>))
                      ELSE JSONResponse
       /\ pc' = "done"

\* estimate_from_dish up to its first await of the extractor (lines 17-31)
DishClassify ==
    /\ entry = "estimate_from_dish" /\ pc = "start"
    /\ LET dish == Strip(text)
       IN IF dish = <<>>
          THEN /\ response' = HTTPException(400, MSG_DISH_REQUIRED)
               /\ pc' = "done"
               /\ UNCHANGED <<classify_calls, classification, dish_arg, log>>
          ELSE \E resp \in ClassifierResponses :
               LET r == classify_text_as_food(dish, resp)
                   gate == Gate(r.result.action)
               IN /\ classify_calls' = classify_calls + r.calls
                  /\ classification' = r.result
                  /\ IF r.raised
                     THEN /\ response' = Uncaught(r.exc)
                          /\ pc' = "done"
                          /\ log' = log \o <<"classify">>
                          /\ UNCHANGED dish_arg
                     ELSE IF gate = "reject"
                     THEN /\ response' = HTTPException(400, r.result.message)
                          /\ pc' = "done"
                          /\ log' = log \o <<"classify", "classified">>
                          /\ UNCHANGED dish_arg
                     ELSE IF gate = "ask_clarify"
                     THEN /\ response' = HTTPException(400, MSG_DISH_CLARIFY)
                          /\ pc' = "done"
                          /\ log' = log \o <<"classify", "classified">>
                          /\ UNCHANGED dish_arg
                     ELSE /\ dish_arg' = Or(r.result.dish, Str(dish))
                          /\ pc' = "extract"
                          /\ log' = log \o <<"classify", "classified", "extract">>
                          /\ UNCHANGED response
    /\ UNCHANGED <<emission_key, raw, entry, text, contents, hint, max_retries, attempt, prompt,
                   extract_calls, attempts, parsed_any, ingredients, carbon>>

\* one pass of the retry loop inside estimate_from_dish, and the rest of the
\* try block once the extractor returns (lines 30-40)
DishExtract ==
    /\ entry = "estimate_from_dish" /\ pc = "extract"
    /\ attempt <= max_retries
    /\ \E resp \in DishResponses :
       LET p == ExtractPass(dish_arg, attempt, max_retries, resp)
       IN /\ extract_calls' = extract_calls + 1
          /\ attempts' = Append(attempts, AttemptRecord(p))
          /\ parsed_any' = (parsed_any \/ p.parsed)
          /\ CASE p.kind = "raise" ->
                    /\ response' = HTTPException(500, Str(<<p.exc>>))
                    /\ pc' = "done"
                    /\ UNCHANGED <<attempt, prompt, ingredients, carbon, log>>
               [] p.kind = "retry" ->
                    /\ attempt' = attempt + 1
                    /\ prompt' = "clarifying"
                    /\ UNCHANGED <<pc, response, ingredients, carbon, log>>
               [] p.kind = "return" ->
                    /\ Aggregate(p.value)
                    /\ attempt' = IF p.valid THEN attempt ELSE attempt + 1
                    /\ UNCHANGED prompt
    /\ UNCHANGED <<emission_key, raw, entry, text, contents, hint, max_retries, classify_calls,
                   classification, dish_arg>>

\* estimate_from_image up to its await of the extractor (lines 46-63)
ImageClassify ==
    /\ entry = "estimate_from_image" /\ pc = "start"
    /\ IF contents = <<>>
       THEN /\ response' = HTTPException(400, MSG_EMPTY_IMAGE)
            /\ pc' = "done"
            /\ UNCHANGED <<classify_calls, classification, dish_arg, log>>
       ELSE \E resp \in ClassifierResponses :
            LET r == classify_image_as_food(resp)
                gate == Gate(r.result.action)
                objs == Or(r.result.contains_objects, List(<<>>, FALSE))
            IN /\ classify_calls' = classify_calls + r.calls
               /\ classification' = r.result
               /\ IF r.raised
                  THEN /\ response' = Uncaught(r.exc)
                       /\ pc' = "done"
                       /\ log' = log \o <<"classify">>
                       /\ UNCHANGED dish_arg
                  ELSE IF gate = "reject"
                  THEN /\ response' =
                            IF ~Truthy(objs) THEN HTTPException(400, r.result.message)
                            ELSE IF JoinRaises(objs) THEN Uncaught("TypeError")
                            ELSE [HTTPException(400, r.result.message)
                                     EXCEPT !.detected = objs]
                       /\ pc' = "done"
                       /\ log' = log \o <<"classify", "classified">>
                       /\ UNCHANGED dish_arg
                  ELSE IF gate = "ask_clarify"
                  THEN /\ response' = HTTPException(400, MSG_IMAGE_CLARIFY)
                       /\ pc' = "done"
                       /\ log' = log \o <<"classify", "classified">>
                       /\ UNCHANGED dish_arg
                  ELSE /\ dish_arg' = Or(Or(r.result.dish, hint), Str(S_inferred_dish))
                       /\ pc' = "extract"
                       /\ log' = log \o <<"classify", "classified", "extract">>
                       /\ UNCHANGED response
    /\ UNCHANGED <<emission_key, raw, entry, text, contents, hint, max_retries, attempt, prompt,
                   extract_calls, attempts, parsed_any, ingredients, carbon>>

\* the single extractor call of estimate_from_image and the rest of the try
\* block (lines 64-74)
ImageExtract ==
    /\ entry = "estimate_from_image" /\ pc = "extract"
    /\ \E resp \in ImageResponses :
       LET r == extract_ingredients_from_image(dish_arg, resp)
       IN /\ extract_calls' = extract_calls + 1
          /\ IF r.kind = "raise"
             THEN /\ response' = HTTPException(500, Str(<<r.exc>>))
                  /\ pc' = "done"
                  /\ UNCHANGED <<ingredients, carbon, log>>
             ELSE Aggregate(r.value)
    /\ UNCHANGED <<emission_key, raw, entry, text, contents, hint, max_retries, attempt, prompt,
                   classify_calls, attempts, parsed_any, classification, dish_arg>>

---------------------------------------------------------------------------
(* Direct calls of the functions the handlers use *)

\* one pass of the retry loop of extract_ingredients_from_dish(dish, max_retries)
ExtractAttempt ==
    /\ entry = "extract_ingredients_from_dish" /\ pc = "extract"
    /\ attempt <= max_retries
    /\ \E resp \in DishResponses :
       LET p == ExtractPass(dish_arg, attempt, max_retries, resp)
       IN /\ extract_calls' = extract_calls + 1
          /\ attempts' = Append(attempts, AttemptRecord(p))
          /\ parsed_any' = (parsed_any \/ p.parsed)
          /\ CASE p.kind = "raise" ->
                    /\ response' = Uncaught(p.exc)
                    /\ pc' = "done"
                    /\ UNCHANGED <<attempt, prompt, ingredients>>
               [] p.kind = "retry" ->
                    /\ attempt' = attempt + 1
                    /\ prompt' = "clarifying"
                    /\ UNCHANGED <<pc, response, ingredients>>
               [] p.kind = "return" ->
                    /\ ingredients' = p.value
                    /\ response' = Return
                    /\ pc' = "done"
                    /\ attempt' = IF p.valid THEN attempt ELSE attempt + 1
                    /\ UNCHANGED prompt
    /\ UNCHANGED <<emission_key, raw, entry, text, contents, hint, max_retries, classify_calls,
                   classification, dish_arg, carbon, log>>

\* classify_text_as_food(text_input)
ClassifyText ==
    /\ entry = "classify_text_as_food" /\ pc = "start"
    /\ \E resp \in FewClassifierResponses :
       LET r == classify_text_as_food(text, resp)
       IN /\ classify_calls' = classify_calls + r.calls
          /\ raw' = IF r.calls = 0 THEN raw ELSE <<resp>>
          /\ classification' = r.result
          /\ response' = IF r.raised THEN Uncaught(r.exc) ELSE Return
    /\ pc' = "done"
    /\ UNCHANGED <<emission_key, entry, text, contents, hint, max_retries, attempt, prompt,
                   extract_calls, attempts, parsed_any, dish_arg, ingredients,
                   carbon, log>>

\* classify_image_as_food(image_bytes, hint)
ClassifyImage ==
    /\ entry = "classify_image_as_food" /\ pc = "start"
    /\ \E resp \in ClassifierResponses :
       LET r == classify_image_as_food(resp)
       IN /\ classify_calls' = classify_calls + r.calls
          /\ raw' = <<resp>>
          /\ classification' = r.result
          /\ response' = IF r.raised THEN Uncaught(r.exc) ELSE Return
    /\ pc' = "done"
    /\ UNCHANGED <<emission_key, entry, text, contents, hint, max_retries,
                   attempt, prompt, extract_calls, attempts, parsed_any,
                   dish_arg, ingredients, carbon, log>>

\* estimate_carbon(ingredients)
EstimateCarbon ==
    /\ entry = "estimate_carbon" /\ pc = "start"
    /\ carbon' = estimate_carbon(ingredients)
    /\ response' = IF estimate_carbon(ingredients).raised
                   THEN Uncaught(estimate_carbon(ingredients).exc)
                   ELSE Return
    /\ pc' = "done"
    /\ UNCHANGED <<emission_key, raw, entry, text, contents, hint, max_retries, attempt, prompt,
                   classify_calls, extract_calls, attempts, parsed_any,
                   classification, dish_arg, ingredients, log>>

\* _find_emission_key(name)
FindEmissionKey ==
    /\ entry = "_find_emission_key" /\ pc = "start"
    /\ emission_key' = Str(_find_emission_key(text))
    /\ response' = Return
    /\ pc' = "done"
    /\ UNCHANGED <<entry, text, contents, hint, max_retries, attempt, prompt,
                   classify_calls, extract_calls, attempts, parsed_any, raw,
                   classification, dish_arg, ingredients, carbon, log>>

---------------------------------------------------------------------------
(* Specifications *)

\* the state every call starts from, whatever its arguments
Fresh ==
    /\ attempt = 0
    /\ prompt = "base"
    /\ classify_calls = 0
    /\ extract_calls = 0
    /\ attempts = <<>>
    /\ parsed_any = FALSE
    /\ raw = <<>>
    /\ classification = NoClassification
    /\ carbon = NoCarbon
    /\ emission_key = Null
    /\ response = NoResponse
    /\ log = <<>>

\* one request to POST /estimate/ or POST /estimate/image
Init ==
    /\ entry \in {"estimate_from_dish", "estimate_from_image"}
    /\ pc = "start"
    /\ IF entry = "estimate_from_dish"
       THEN text \in DishTexts /\ contents = <<>> /\ hint = Null
       ELSE text = <<>> /\ contents \in ImageContents /\ hint \in Hints
    /\ max_retries = DefaultMaxRetries
    /\ dish_arg = Null
    /\ ingredients = <<>>
    /\ Fresh

Next == DishClassify \/ DishExtract \/ ImageClassify \/ ImageExtract

Spec == Init /\ [][Next]_vars

\* one call of extract_ingredients_from_dish(dish, max_retries)
InitExtract ==
    /\ entry = "extract_ingredients_from_dish"
    /\ pc = "extract"
    /\ text \in DishArgs
    /\ dish_arg = Str(text)
    /\ contents = <<>> /\ hint = Null
    /\ max_retries \in 0..MaxRetriesArg
    /\ ingredients = <<>>
    /\ Fresh

NextExtract == ExtractAttempt

SpecExtract == InitExtract /\ [][NextExtract]_vars

\* one call of classify_text_as_food(text_input)
InitText ==
    /\ entry = "classify_text_as_food"
    /\ pc = "start"
    /\ text \in SeqsUpTo(TextAlphabet, MaxTextLen)
    /\ contents = <<>> /\ hint = Null
    /\ max_retries = DefaultMaxRetries
    /\ dish_arg = Null
    /\ ingredients = <<>>
    /\ Fresh

NextText == ClassifyText

SpecText == InitText /\ [][NextText]_vars

\* one call of estimate_carbon(ingredients)
InitCarbon ==
    /\ entry = "estimate_carbon"
    /\ pc = "start"
    /\ text = <<>> /\ contents = <<>> /\ hint = Null
    /\ max_retries = DefaultMaxRetries
    /\ dish_arg = Null
    /\ ingredients \in SeqsUpTo(IngredientInputs, MaxIngredients)
    /\ Fresh

NextCarbon == EstimateCarbon

SpecCarbon == InitCarbon /\ [][NextCarbon]_vars

\* one call of classify_text_as_food(text_input) or of
\* classify_image_as_food(image_bytes, hint)
InitClassify ==
    /\ entry \in {"classify_text_as_food", "classify_image_as_food"}
    /\ pc = "start"
    /\ IF entry = "classify_text_as_food"
       THEN text \in DishArgs /\ contents = <<>> /\ hint = Null
       ELSE text = <<>> /\ contents = <<255, 216>> /\ hint \in Hints
    /\ max_retries = DefaultMaxRetries
    /\ dish_arg = Null
    /\ ingredients = <<>>
    /\ Fresh

NextClassify == ClassifyText \/ ClassifyImage

SpecClassify == InitClassify /\ [][NextClassify]_vars

\* one call of _find_emission_key(name)
InitKey ==
    /\ entry = "_find_emission_key"
    /\ pc = "start"
    /\ text \in EmissionNames
    /\ contents = <<>> /\ hint = Null
    /\ max_retries = DefaultMaxRetries
    /\ dish_arg = Null
    /\ ingredients = <<>>
    /\ Fresh

NextKey == FindEmissionKey

SpecKey == InitKey /\ [][NextKey]_vars

---------------------------------------------------------------------------
(* Properties *)

BackendError == Str(<<"BackendError">>)

\* the call of extract_ingredients_from_dish has ended and every response it
\* got was a text that gave no JSON array
AllUnparsable ==
    /\ entry = "extract_ingredients_from_dish" /\ pc = "done"
    /\ ~parsed_any
    /\ \A i \in 1..Len(attempts) : attempts[i].kind # "raise"

\* C1: when every backend response during extract_ingredients_from_dish is a
\* text that yields no JSON array, the call returns exactly
\* [{name: dish, percentage: 100}], after max_retries + 1 backend calls.
C1_FallbackAfterRetries ==
    AllUnparsable =>
        /\ response = Return
        /\ ingredients = <<[name |-> dish_arg, percentage |-> Num(100)]>>
        /\ extract_calls = max_retries + 1

C1_Witness ==
    /\ AllUnparsable
    /\ dish_arg = Str(S_Pasta)
    /\ max_retries = 2
    /\ extract_calls = 3
    /\ ingredients = <<[name |-> Str(S_Pasta), percentage |-> Num(100)]>>

\* C2: extract_ingredients_from_dish makes at most max_retries + 1 backend
\* calls; every attempt that is followed by another call was invalid and left
\* a retry (its number is below max_retries); a valid attempt is the last
\* one and ends the call; the loop runs on only while calls remain.
C2_BoundedRetries ==
    entry = "extract_ingredients_from_dish" =>
        /\ extract_calls = Len(attempts)
        /\ extract_calls <= max_retries + 1
        /\ pc = "extract" => extract_calls <= max_retries
        /\ \A i \in 1..Len(attempts) :
              /\ i < Len(attempts) =>
                    /\ ~attempts[i].valid
                    /\ attempts[i].kind = "retry"
                    /\ i <= max_retries
              /\ attempts[i].valid => i = Len(attempts) /\ pc = "done"
              /\ attempts[i].kind # "retry" => pc = "done"

C2_Witness ==
    /\ entry = "extract_ingredients_from_dish" /\ pc = "done"
    /\ max_retries = 2
    /\ Len(attempts) = 2
    /\ ~attempts[1].valid
    /\ attempts[2].valid
    /\ response = Return

\* the stages of one request, in the order the handlers run them
Stages == <<"classify", "classified", "extract", "extract_returned", "aggregate">>

\* C3: within a request the stages run in the order classify, extract,
\* aggregate; the extractor is invoked only after the classifier returned
\* accept; a request classified reject or ask_clarify ends with a 400 and no
\* extractor or aggregator call.
C3_GatedSequence ==
    /\ Len(log) <= Len(Stages) /\ log = SubSeq(Stages, 1, Len(log))
    /\ (extract_calls > 0 \/ pc = "extract") =>
           /\ Len(log) >= 3
           /\ classification.action = S_accept
    /\ carbon.done => Len(log) = 5 /\ extract_calls > 0
    /\ (pc = "done" /\ Len(log) >= 2
           /\ classification.action \in {S_reject, S_ask_clarify}) =>
           /\ response.kind = "http" /\ response.status = 400
           /\ extract_calls = 0
           /\ ~carbon.done

\* C4: every classification a classifier returns has a non-empty str message
\* when its action is reject, and is_food = true when its action is accept.
C4_ClassificationInvariant ==
    Len(log) >= 2 =>
        /\ classification.action = S_reject =>
               IsStr(classification.message) /\ classification.message.s # <<>>
        /\ classification.action = S_accept => classification.is_food

\* C5: when no backend call failed, the request ends as a successful
\* estimate or as a 400, never as a 500 or an uncaught exception.
C5_MalformedRecovered ==
    (pc = "done" /\ response.detail # BackendError) =>
        \/ response.kind = "ok"
        \/ response.kind = "http" /\ response.status = 400

\* the condition C6 names, on the trimmed, lower-cased input
NonFoodInput(txt) ==
    LET t == Lower(Strip(txt))
    IN \/ t \in _NON_FOOD_KEYWORDS
       \/ Len(t) < 3 /\ \A i \in 1..Len(t) : ~IsDigit(t[i])

\* C6: classify_text_as_food makes no backend call and returns reject when
\* the trimmed, lower-cased input is a non-food keyword or is shorter than 3
\* characters with no digit; on every other input it makes exactly one call.
C6_HeuristicCallCount ==
    (entry = "classify_text_as_food" /\ pc = "done") =>
        IF NonFoodInput(text)
        THEN /\ classify_calls = 0
             /\ response = Return
             /\ classification.action = S_reject
        ELSE classify_calls = 1

C6_Witness ==
    /\ entry = "classify_text_as_food" /\ pc = "done"
    /\ text = <<"C", "a", "t">>
    /\ classify_calls = 0
    /\ classification.action = S_reject

\* C7: when a backend call raises, the endpoint answers with a 500 whose
\* detail is the exception's message.
C7_BackendFailureIs500 ==
    (pc = "done" /\ response.detail = BackendError) =>
        response.kind = "http" /\ response.status = 500

\* the exact carbon of entry i in units of 0.001 kg, as <<num, den>>
ExactCarbon(i) ==
    <<FactorOf(_find_emission_key(carbon.result[i].name)) * carbon.normalized[i][1]
          * DEFAULT_DISH_WEIGHT_KG,
      carbon.normalized[i][2] * 10>>

Abs(x) == IF x < 0 THEN 0 - x ELSE x

\* C8: the reported total is the sum of the returned carbon_kg values, each
\* of them the exact product rounded to 3 decimals, the sum rounded again.
C8_TotalIsSumOfRounded ==
    (entry = "estimate_carbon" /\ carbon.done /\ ~carbon.raised) =>
        /\ Len(carbon.result) = Len(ingredients)
        /\ \A i \in 1..Len(carbon.result) :
              LET exact == ExactCarbon(i)
                  diff  == carbon.result[i].carbon_kg * exact[2] - exact[1]
              IN 2 * Abs(diff) <= exact[2]
        /\ carbon.total =
              SumSeq([i \in 1..Len(carbon.result) |-> carbon.result[i].carbon_kg])

C8_Witness ==
    /\ entry = "estimate_carbon" /\ carbon.done /\ ~carbon.raised
    /\ Len(carbon.result) = 2
    /\ \E i \in 1..2 : LET exact == ExactCarbon(i) IN exact[1] % exact[2] # 0
    /\ carbon.total > 0

\* the percentage of an entry is zero, absent or unparsable
ZeroOrMissing(ing) ==
    \/ ing.percentage.k \in {"absent", "null"}
    \/ ing.percentage.k = "num" /\ ing.percentage.n = 0
    \/ ing.percentage.k = "str" /\ ~ParseFloat(ing.percentage.s).ok

\* C9: when every entry's percentage is zero, absent or unparsable, every
\* entry gets the share 100 / n, and the shares sum to 100.
C9_EqualShares ==
    (entry = "estimate_carbon" /\ carbon.done /\ ingredients # <<>>
        /\ \A i \in 1..Len(ingredients) : ZeroOrMissing(ingredients[i])) =>
        /\ Len(carbon.normalized) = Len(ingredients)
        /\ \A i \in 1..Len(ingredients) :
              /\ carbon.normalized[i][2] = carbon.normalized[1][2]
              /\ carbon.normalized[i][1] * Len(ingredients) = 100 * carbon.normalized[i][2]
        /\ SumSeq([i \in 1..Len(ingredients) |-> carbon.normalized[i][1]])
              = 100 * carbon.normalized[1][2]

C9_Witness ==
    /\ entry = "estimate_carbon" /\ carbon.done
    /\ Len(ingredients) = 2
    /\ ingredients[1].percentage = Num(0)
    /\ ingredients[2].percentage = Str(S_high)
    /\ carbon.normalized = <<<<100, 2>>, <<100, 2>>>>

\* C10: after normalization the percentages sum to 100 and none is negative,
\* whatever percentages the list came with.
C10_NormalizedSumAndSign ==
    (entry = "estimate_carbon" /\ carbon.done /\ ~carbon.raised) =>
        /\ Len(carbon.normalized) = Len(ingredients)
        /\ \A i \in 1..Len(carbon.normalized) :
              /\ carbon.normalized[i][2] = carbon.normalized[1][2]
              /\ carbon.normalized[i][1] >= 0
        /\ SumSeq([i \in 1..Len(carbon.normalized) |-> carbon.normalized[i][1]])
              = 100 * carbon.normalized[1][2]

\* position of a key in the table's iteration order, 0 when it is no key
KeyIndex(k) ==
    IF HasKey(k)
    THEN CHOOSE i \in 1..Len(EMISSIONS_PER_KG) : EMISSIONS_PER_KG[i].key = k
    ELSE 0
\* the table keys that occur in a lower-cased name
KeysIn(key) ==
    {EMISSIONS_PER_KG[i].key : i \in {j \in 1..Len(EMISSIONS_PER_KG) :
                                        Contains(EMISSIONS_PER_KG[j].key, key)}}

\* C11: _find_emission_key returns the lower-cased name when that is a table
\* key; otherwise the first key, in table order, that occurs in the
\* lower-cased name; otherwise "default".  "Grilled Chicken Breast" gives
\* "chicken".
C11_EmissionKeyResolution ==
    (entry = "_find_emission_key" /\ pc = "done") =>
        LET key == Lower(text)
            k   == emission_key.s
        IN /\ emission_key.k = "str"
           /\ HasKey(key) => k = key
           /\ (~HasKey(key) /\ KeysIn(key) # {}) =>
                 /\ k \in KeysIn(key)
                 /\ \A other \in KeysIn(key) : KeyIndex(k) <= KeyIndex(other)
           /\ (~HasKey(key) /\ KeysIn(key) = {}) => k = S_default
           /\ text = S_Grilled_Chicken_Breast => k = <<"c","h","i","c","k","e","n">>
\* a name holding two keys, the later one of the table first: "RiceBeef"
C11_Witness ==
    /\ entry = "_find_emission_key" /\ pc = "done"
    /\ text = S_Rice \o S_Beef
    /\ emission_key = Str(<<"b","e","e","f">>)

\* the object a directly called classifier read from the backend's answer
Answered ==
    IF raw = <<>> \/ raw[1].raises THEN EmptyObj
    ELSE _extract_json_object(raw[1].text)
\* the backend answered with an object whose action, taken without regard
\* to case, is none of accept, reject, ask_clarify
InvalidAction ==
    /\ entry \in {"classify_text_as_food", "classify_image_as_food"}
    /\ pc = "done" /\ response = Return
    /\ ~IsEmptyObj(Answered)
    /\ \/ Answered.action.k = "absent"
       \/ Answered.action.k = "str" /\ Lower(Answered.action.s) \notin ValidActions

\* C12: in both classifiers, when the backend's action is none of accept,
\* reject, ask_clarify, the returned action is derived from is_food: accept
\* when is_food is true, reject when it is false.
C12_ActionDerivedFromIsFood ==
    InvalidAction =>
        classification.action = IF classification.is_food THEN S_accept ELSE S_reject

\* a name equals the dish name once both are trimmed and lower-cased
EchoesDish(name) == Lower(Strip(name.s)) = Lower(Strip(dish_arg.s))

\* C13: every list extract_ingredients_from_dish returns is either the single
\* fallback entry {name: dish, percentage: 100}, returned once the attempts
\* are used up, or a cleaned list of more than one entry, each with a
\* non-empty name, whose names do not all equal the dish name (case and
\* surrounding whitespace ignored); a one-entry or dish-echoing cleaned list
\* is never what an attempt returns.
C13_ReturnedListShape ==
    (entry = "extract_ingredients_from_dish" /\ pc = "done" /\ response = Return) =>
        \/ /\ ingredients = <<[name |-> dish_arg, percentage |-> Num(100)]>>
           /\ extract_calls = max_retries + 1
           /\ ~attempts[Len(attempts)].valid
        \/ /\ Len(ingredients) > 1
           /\ \A i \in 1..Len(ingredients) :
                 /\ IsStr(ingredients[i].name)
                 /\ Strip(ingredients[i].name.s) # <<>>
           /\ \E i \in 1..Len(ingredients) : ~EchoesDish(ingredients[i].name)
\* a second attempt returned a two-entry list in which one entry echoes the
\* dish name and the other does not
C13_Witness ==
    /\ entry = "extract_ingredients_from_dish" /\ pc = "done" /\ response = Return
    /\ Len(attempts) = 2 /\ attempts[2].valid
    /\ Len(ingredients) = 2
    /\ EchoesDish(ingredients[1].name)
    /\ ~EchoesDish(ingredients[2].name)

====
